---- MODULE Spec2Model ----
(***************************************************************************)
(* dargparser: a dataclass-driven front end to argparse.                   *)
(*                                                                         *)
(* The model follows src/src/dargparser/parsing.py and helpers.py:         *)
(*   dArg                         the field declaration helper             *)
(*   dArgParser.__init__          compiles every field into argparse       *)
(*                                arguments (_parse_dataclass_field)       *)
(*   parse_args_into_dataclasses  merges config files with the command     *)
(*                                line, matches, and assembles the records *)
(* argparse itself (add_argument, parse_known_args) is the standard        *)
(* library; it is modelled by its documented behaviour for the kinds of    *)
(* argument dargparser registers (store / store_false optionals with nargs *)
(* None, "?" and "+").  Tokens are atomic strings: prefix abbreviations,   *)
(* "--flag=value" and the "--" separator are outside the vocabulary.       *)
(***************************************************************************)
EXTENDS Integers, Sequences, FiniteSets, TLC

VARIABLES
    pc,               \* "declared" | "constructed" | "config_error" | "parsed"
    dataclass_types,  \* the dataclasses handed to dArgParser(...), in order
    call,             \* the inputs of parse_args_into_dataclasses and the process's sys.argv
    parser,           \* the dArgParser instance: its registered argparse actions
    heap,             \* the list objects of the process: heap[id] is the content of list id
    outcome,          \* what the last parse_args_into_dataclasses call returned or raised
    handed_out,       \* ids of the list objects that earlier parses returned to the caller
    n_parses,         \* number of parse calls made on the parser
    n_mutations       \* number of times the caller changed a returned list

vars == <<pc, dataclass_types, call, parser, heap, outcome, handed_out, n_parses, n_mutations>>

(***************************************************************************)
(* Bounds of the model.                                                    *)
(***************************************************************************)
\* longest command line, in tokens, of the token-level enumeration
MaxArgs == 3
\* longest command line, in items (a flag with its value), of the config-file scenarios
MaxItems == 2
\* parse calls made on one parser
MaxParses == 2
\* caller-side changes of returned lists
MaxMutations == 1

(***************************************************************************)
(* Python values.  Every value is a record [t, v, id]: its type name, its  *)
(* str() form, and for a list the id of the list object in the heap.       *)
(***************************************************************************)
Val(t, v) == [t |-> t, v |-> v, id |-> 0]
PyInt(s) == Val("int", s)
PyStr(s) == Val("str", s)
PyFloat(s) == Val("float", s)
PyTrue == Val("bool", "True")
PyFalse == Val("bool", "False")
PyNone == Val("NoneType", "None")
\* dataclasses.MISSING
MISSING == Val("MISSING", "MISSING")
\* argparse.SUPPRESS
SUPPRESS == Val("SUPPRESS", "==SUPPRESS==")
ListRef(i) == [t |-> "list", v |-> "", id |-> i]

\* str(value) of a scalar
Str(val) == val.v

NoFn == [k \in {} |-> PyNone]
Put(f, k, x) == [y \in (DOMAIN f) \cup {k} |-> IF y = k THEN x ELSE f[y]]
Without(f, ks) == [y \in (DOMAIN f) \ ks |-> f[y]]
Range(s) == {s[i] : i \in DOMAIN s}

RECURSIVE Flatten(_)
\* the concatenation of a sequence of sequences
Flatten(ss) == IF ss = <<>> THEN <<>> ELSE Head(ss) \o Flatten(Tail(ss))

(***************************************************************************)
(* Tokens.  startswith("-") and the decimal / truthy spellings are tables  *)
(* over the vocabulary.                                                    *)
(***************************************************************************)
DashTokens ==
    {"--processes", "--cuda", "--no_cuda", "--verbose", "--no_verbose", "--qq",
     "--bois", "--hackyl", "--u", "--no_u", "--extra", "--cfg", "--bogus", "-h", "--help",
     "--learning_rate", "--lr"}

\* arg_string[0] in prefix_chars
StartsWithDash(tok) == tok \in DashTokens

\* the strings int() accepts
IntLiterals == {"1", "2", "3", "5", "8", "42"}

\* str.lower()
Lower(tok) ==
    CASE tok = "No" -> "no"
      [] tok = "YES" -> "yes"
      [] OTHER -> tok

(***************************************************************************)
(* Types.  A type annotation is [origin, args, choices]:                   *)
(*   int, str, float, bool      origin is the type's name                  *)
(*   typing.Union[a, b, ...]    origin "Union", args the arms' names       *)
(*   a | b (types.UnionType)    origin "UnionType", args the arms' names   *)
(*   list[a]                    origin "list", args <<a>>                  *)
(*   Literal[...] / Choice[...] origin "Literal", choices the members      *)
(***************************************************************************)
Plain(name) == [origin |-> name, args |-> <<>>, choices |-> <<>>]
TUnion(arms) == [origin |-> "Union", args |-> arms, choices |-> <<>>]
TUnionType(arms) == [origin |-> "UnionType", args |-> arms, choices |-> <<>>]
TList(elem) == [origin |-> "list", args |-> <<elem>>, choices |-> <<>>]
TLiteral(members) == [origin |-> "Literal", args |-> <<>>, choices |-> members]

\* issubclass(t, a) for the scalar types: bool is a subclass of int
IsSubclass(t, a) == t = a \/ (t = "bool" /\ a = "int")

\* field.type == Optional[bool]
IsOptionalBool(ty) == ty.origin = "Union" /\ Range(ty.args) = {"bool", "NoneType"}

(***************************************************************************)
(* helpers.py                                                              *)
(***************************************************************************)
NoValue == [ok |-> FALSE, val |-> PyNone]
Got(val) == [ok |-> TRUE, val |-> val]

\* string_to_bool on a command-line token: the bool, or ArgumentTypeError (ok = FALSE)
\* string_to_bool replaced by the builtin bool: every non-empty string is true
string_to_bool_Truthy(v) == Got(PyTrue)

string_to_bool(v) ==
    IF Lower(v) \in {"yes", "true", "t", "y", "1"} THEN Got(PyTrue)
    ELSE IF Lower(v) \in {"no", "false", "f", "n", "0"} THEN Got(PyFalse)
    ELSE NoValue

\* the dict {str(choice): choice for choice in choices}: a later choice with the same
\* string form replaces an earlier one
str_to_choice(choices) ==
    [s \in {Str(choices[i]) : i \in DOMAIN choices} |->
        LET hits == {i \in DOMAIN choices : Str(choices[i]) = s}
        IN  choices[CHOOSE i \in hits : \A j \in hits : j <= i]]

\* make_choice_type_function without the lookup: the string comes back as it is
make_choice_type_function_AsIs(choices, arg) == PyStr(arg)

\* the function make_choice_type_function(choices) returns, applied to arg
make_choice_type_function(choices, arg) ==
    IF arg \in DOMAIN str_to_choice(choices) THEN str_to_choice(choices)[arg] ELSE PyStr(arg)

(***************************************************************************)
(* dArg: a declaration `name: type = dArg(default=..., default_factory=...,*)
(* aliases=...)` becomes a dataclasses.Field.  A declaration's literal     *)
(* list default is decl.default = a list value with decl.items.            *)
(***************************************************************************)
NoFactory == [kind |-> "MISSING", id |-> 0]
ListFactory == [kind |-> "list", id |-> 0]

Decl(name, type, default) ==
    [name |-> name, type |-> type, default |-> default, items |-> <<>>,
     default_factory |-> NoFactory, aliases |-> <<>>, init |-> TRUE]

\* dArg(...) evaluated when the class body runs, on heap h: the Field and the new heap
dArg(decl, h) ==
    IF decl.default.t = "list"
    THEN \* default_copy = copy(default); default_factory = lambda: default_copy
         [field |-> [decl EXCEPT !.default = MISSING,
                                 !.default_factory = [kind |-> "lambda", id |-> Len(h) + 1]],
          heap |-> Append(h, decl.items)]
    ELSE [field |-> decl, heap |-> h]

\* field.default_factory(): the value and the new heap
CallFactory(factory, h) ==
    IF factory.kind = "list"
    THEN [val |-> ListRef(Len(h) + 1), heap |-> Append(h, <<>>)]
    ELSE [val |-> ListRef(factory.id), heap |-> h]

(***************************************************************************)
(* argparse actions.  An action is what add_argument registers:            *)
(* [option_strings, dest, action, nargs, const, default, type, choices,    *)
(*  has_choices, required].  nargs is "None" (exactly one value), "?"      *)
(* (zero or one, const when zero), "+" (one or more) or "0" (store_false   *)
(* and help take no value).                                                *)
(***************************************************************************)
\* f"--{field.name}"
field_name(name) ==
    CASE name = "processes" -> "--processes"
      [] name = "cuda" -> "--cuda"
      [] name = "verbose" -> "--verbose"
      [] name = "qq" -> "--qq"
      [] name = "bois" -> "--bois"
      [] name = "hackyl" -> "--hackyl"
      [] name = "u" -> "--u"
      [] name = "learning_rate" -> "--learning_rate"

\* f"--no_{field.name}"
no_field_name(name) ==
    CASE name = "cuda" -> "--no_cuda"
      [] name = "verbose" -> "--no_verbose"
      [] name = "u" -> "--no_u"

\* ArgumentParser(add_help=True) registers -h/--help; its default is SUPPRESS
HelpAction ==
    [option_strings |-> <<"-h", "--help">>, dest |-> "help", action |-> "help",
     nargs |-> "0", const |-> PyNone, default |-> SUPPRESS, type |-> "None",
     choices |-> <<>>, has_choices |-> FALSE, required |-> FALSE]

\* the keyword arguments add_argument fills in when they are not given
StoreAction(option_strings, dest) ==
    [option_strings |-> option_strings, dest |-> dest, action |-> "store",
     nargs |-> "None", const |-> PyNone, default |-> PyNone, type |-> "None",
     choices |-> <<>>, has_choices |-> FALSE, required |-> FALSE]

\* the option strings an action list already holds
OptionStrings(actions) == UNION {Range(actions[i].option_strings) : i \in DOMAIN actions}

\* add_argument without _check_conflict: a taken option string is registered again
add_argument_NoConflictCheck(p, a) ==
    IF p.status # "ok" THEN p
    ELSE [p EXCEPT !.actions = Append(@, a)]

\* add_argument under conflict_handler="error": a taken option string raises ArgumentError
add_argument(p, a) ==
    IF p.status # "ok" THEN p
    ELSE IF Range(a.option_strings) \cap OptionStrings(p.actions) # {}
    THEN [p EXCEPT !.status = "ArgumentError", !.error_field = a.dest]
    ELSE [p EXCEPT !.actions = Append(@, a)]

(***************************************************************************)
(* _parse_dataclass_field, lines 188-219: the Union shapes.                *)
(***************************************************************************)
\* the Union shapes that raise ValueError
\* UnionRaises without the tests of the number of arms
UnionRaises_AnyLength(ty) ==
    \/ /\ ty.origin = "Union"
       /\ "str" \notin Range(ty.args)
       /\ "NoneType" \notin Range(ty.args)
    \/ /\ ty.origin = "UnionType"
       /\ "NoneType" \notin Range(ty.args)

UnionRaises(ty) ==
    \/ /\ ty.origin = "Union"
       /\ "str" \notin Range(ty.args)
       /\ (Len(ty.args) # 2 \/ "NoneType" \notin Range(ty.args))
    \/ /\ ty.origin = "UnionType"
       /\ (Len(ty.args) # 2 \/ "NoneType" \notin Range(ty.args))

\* accept_types = [str, int, float, bool]
accept_types == <<"str", "int", "float", "bool">>

\* field.type after the Union branch (for a shape that did not raise)
ResolveType(ty) ==
    IF ty.origin = "Union"
    THEN IF "NoneType" \notin Range(ty.args)
         THEN \* filter `str` in Union
              Plain(IF ty.args[2] = "str" THEN ty.args[1] ELSE ty.args[2])
         ELSE IF "bool" \notin Range(ty.args)
         THEN \* filter `NoneType` in Union (except for Union[bool, NoneType])
              Plain(IF ty.args[2] = "NoneType" THEN ty.args[1] ELSE ty.args[2])
         ELSE ty
    ELSE IF ty.origin = "UnionType"
    THEN LET hits == {i \in DOMAIN accept_types :
                         \E j \in DOMAIN ty.args : IsSubclass(accept_types[i], ty.args[j])}
         IN  IF hits = {} THEN ty
             ELSE Plain(accept_types[CHOOSE i \in hits : \A j \in hits : i <= j])
    ELSE ty

(***************************************************************************)
(* _parse_dataclass_field, lines 221-279: the keyword arguments of the     *)
(* field's primary argument, by type.  Each takes the resolved type, the   *)
(* field and the heap, and gives [action, heap].                           *)
(***************************************************************************)
\* lines 224-236: Literal
ChoiceKwargs(ty, field, h) ==
    LET base == [StoreAction(<<field_name(field.name)>> \o field.aliases, field.name)
                    EXCEPT !.choices = ty.choices, !.has_choices = TRUE, !.type = "choice"]
    IN  [action |-> IF field.default # MISSING
                    THEN [base EXCEPT !.default = field.default]
                    ELSE [base EXCEPT !.required = TRUE],
         heap |-> h]

\* BoolKwargs without the test of line 246: every boolean field gets nargs "?" and const
BoolKwargs_AlwaysConst(ty, field, h) ==
    [action |-> [StoreAction(<<field_name(field.name)>> \o field.aliases, field.name)
                    EXCEPT !.type = "string_to_bool",
                           !.default = IF field.default = MISSING THEN PyFalse ELSE field.default,
                           !.nargs = "?",
                           !.const = PyTrue],
     heap |-> h]

\* lines 237-254: bool and Optional[bool]
BoolKwargs(ty, field, h) ==
    LET base == [StoreAction(<<field_name(field.name)>> \o field.aliases, field.name)
                    EXCEPT !.type = "string_to_bool"]
    IN  [action |-> IF ty.origin = "bool" \/ (field.default # PyNone /\ field.default # MISSING)
                    THEN [base EXCEPT
                            !.default = IF field.default = MISSING THEN PyFalse ELSE field.default,
                            !.nargs = "?",
                            !.const = PyTrue]
                    ELSE base,
         heap |-> h]

\* lines 255-269: list[T]
ListKwargs(ty, field, h) ==
    LET nested == ty.args[1] = "Literal"
        base == [StoreAction(<<field_name(field.name)>> \o field.aliases, field.name)
                    EXCEPT !.type = IF nested THEN "choice" ELSE ty.args[1],
                           !.nargs = "+",
                           !.choices = ty.choices,
                           !.has_choices = nested]
        made == CallFactory(field.default_factory, h)
    IN  IF field.default_factory # NoFactory
        THEN [action |-> [base EXCEPT !.default = made.val], heap |-> made.heap]
        ELSE IF field.default = MISSING
        THEN [action |-> [base EXCEPT !.required = TRUE], heap |-> h]
        ELSE [action |-> base, heap |-> h]

\* PlainKwargs without the else of lines 277-278: no field is required
PlainKwargs_NeverRequired(ty, field, h) ==
    LET base == [StoreAction(<<field_name(field.name)>> \o field.aliases, field.name)
                    EXCEPT !.type = ty.origin]
        made == CallFactory(field.default_factory, h)
    IN  IF field.default # MISSING
        THEN [action |-> [base EXCEPT !.default = field.default], heap |-> h]
        ELSE IF field.default_factory # NoFactory
        THEN [action |-> [base EXCEPT !.default = made.val], heap |-> made.heap]
        ELSE [action |-> base, heap |-> h]

\* lines 271-279: everything else
PlainKwargs(ty, field, h) ==
    LET base == [StoreAction(<<field_name(field.name)>> \o field.aliases, field.name)
                    EXCEPT !.type = ty.origin]
        made == CallFactory(field.default_factory, h)
    IN  IF field.default # MISSING
        THEN [action |-> [base EXCEPT !.default = field.default], heap |-> h]
        ELSE IF field.default_factory # NoFactory
        THEN [action |-> [base EXCEPT !.default = made.val], heap |-> made.heap]
        ELSE [action |-> [base EXCEPT !.required = TRUE], heap |-> h]

\* the dispatch of lines 224, 237, 255, 271
FieldKwargs(ty, field, h) ==
    IF ty.origin = "Literal" THEN ChoiceKwargs(ty, field, h)
    ELSE IF ty.origin = "bool" \/ IsOptionalBool(ty) THEN BoolKwargs(ty, field, h)
    ELSE IF ty.origin = "list" THEN ListKwargs(ty, field, h)
    ELSE PlainKwargs(ty, field, h)

\* lines 287-289: the `--no_<name>` complement of a boolean field whose default is True
NeedsComplement(ty, field) ==
    field.default = PyTrue /\ (ty.origin = "bool" \/ IsOptionalBool(ty))

ComplementAction(field) ==
    [StoreAction(<<no_field_name(field.name)>>, field.name)
        EXCEPT !.action = "store_false", !.nargs = "0", !.const = PyFalse, !.default = PyFalse]

\* _parse_dataclass_field with lines 281 and 289 exchanged: the complement registered first
_parse_dataclass_field_ComplementFirst(p, field) ==
    IF p.status # "ok" THEN p
    ELSE IF UnionRaises(field.type)
    THEN [p EXCEPT !.status = "ValueError", !.error_field = field.name]
    ELSE LET ty == ResolveType(field.type)
             kw == FieldKwargs(ty, field, p.heap)
             p0 == IF NeedsComplement(ty, field)
                   THEN add_argument([p EXCEPT !.heap = kw.heap], ComplementAction(field))
                   ELSE [p EXCEPT !.heap = kw.heap]
         IN  add_argument(p0, kw.action)

\* _parse_dataclass_field(parser, field): p is [status, error_field, actions, heap]
_parse_dataclass_field(p, field) ==
    IF p.status # "ok" THEN p
    ELSE IF UnionRaises(field.type)
    THEN [p EXCEPT !.status = "ValueError", !.error_field = field.name]
    ELSE LET ty == ResolveType(field.type)
             kw == FieldKwargs(ty, field, p.heap)
             p1 == add_argument([p EXCEPT !.heap = kw.heap], kw.action)
         IN  IF NeedsComplement(ty, field)
             THEN add_argument(p1, ComplementAction(field))
             ELSE p1

RECURSIVE AddFields(_, _)
\* _add_dataclass_arguments: every init field of one dataclass, in order
_add_dataclass_arguments(p, dtype) == AddFields(p, dtype.fields)
AddFields(p, fields) ==
    IF fields = <<>> THEN p
    ELSE AddFields(IF Head(fields).init THEN _parse_dataclass_field(p, Head(fields)) ELSE p,
                   Tail(fields))

RECURSIVE AddDataclasses(_, _)
\* dArgParser.__init__: super().__init__() registers help, then every dataclass in order
AddDataclasses(p, dtypes) ==
    IF dtypes = <<>> THEN p
    ELSE AddDataclasses(_add_dataclass_arguments(p, Head(dtypes)), Tail(dtypes))

dArgParser(dtypes, h) ==
    AddDataclasses([status |-> "ok", error_field |-> "", actions |-> <<HelpAction>>, heap |-> h],
                   dtypes)

(***************************************************************************)
(* argparse: converting one argument string (_get_value, _check_value).    *)
(***************************************************************************)
\* float(tok) for the decimal strings of the vocabulary
FloatForm(tok) ==
    CASE tok = "1" -> "1.0"
      [] tok = "2" -> "2.0"
      [] tok = "3" -> "3.0"
      [] tok = "5" -> "5.0"
      [] tok = "8" -> "8.0"
      [] tok = "42" -> "42.0"

\* action.type(arg_string); ok = FALSE when the type function raises
\* (ArgumentTypeError, TypeError and ValueError all end in parser.error)
_get_value(action, tok) ==
    CASE action.type = "None" -> Got(PyStr(tok))
      [] action.type = "str" -> Got(PyStr(tok))
      [] action.type = "int" -> IF tok \in IntLiterals THEN Got(PyInt(tok)) ELSE NoValue
      [] action.type = "float" -> IF tok \in IntLiterals THEN Got(PyFloat(FloatForm(tok))) ELSE NoValue
      [] action.type = "bool" -> Got(PyTrue)
      [] action.type = "string_to_bool" -> string_to_bool(tok)
      [] action.type = "choice" -> Got(make_choice_type_function(action.choices, tok))
      [] OTHER -> NoValue

\* _get_value followed by _check_value: a value outside the choices is an error
ConvertOne(action, tok) ==
    LET got == _get_value(action, tok)
    IN  IF got.ok /\ action.has_choices /\ got.val \notin Range(action.choices)
        THEN NoValue
        ELSE got

RECURSIVE ConvertAll(_, _)
\* every argument string of a nargs="+" occurrence: [ok, vals]
ConvertAll(action, toks) ==
    IF toks = <<>> THEN [ok |-> TRUE, vals |-> <<>>]
    ELSE LET one == ConvertOne(action, Head(toks))
             rest == ConvertAll(action, Tail(toks))
         IN  IF one.ok /\ rest.ok
             THEN [ok |-> TRUE, vals |-> <<one.val>> \o rest.vals]
             ELSE [ok |-> FALSE, vals |-> <<>>]

(***************************************************************************)
(* argparse: parse_known_args.  The parser holds optionals only, so every  *)
(* argument string that no optional consumes goes to the extras, in order. *)
(***************************************************************************)
RECURSIVE SetDefaults(_, _, _)
\* the first loop of parse_known_args: each action in registration order sets its
\* default unless the destination already has a value
SetDefaults(actions, i, ns) ==
    IF i > Len(actions) THEN ns
    ELSE LET a == actions[i]
         IN  SetDefaults(actions, i + 1,
                         IF a.dest \notin DOMAIN ns /\ a.default # SUPPRESS
                         THEN Put(ns, a.dest, a.default)
                         ELSE ns)

\* index of the action that owns option string tok, 0 when there is none
LookupOption(actions, tok) ==
    LET hits == {i \in DOMAIN actions : tok \in Range(actions[i].option_strings)}
    IN  IF hits = {} THEN 0 ELSE CHOOSE i \in hits : TRUE

RECURSIVE CountArgs(_, _)
\* how many argument strings (not starting with "-") stand at args[i..]
CountArgs(args, i) ==
    IF i > Len(args) \/ StartsWithDash(args[i]) THEN 0 ELSE 1 + CountArgs(args, i + 1)

\* consume_optional for the occurrence of action k at args[i] with n argument strings
\* behind it: the new matching state, and how many strings were consumed
TakeOptional(actions, args, i, k, n, st) ==
    LET a == actions[k]
        seen == [st EXCEPT !.seen = @ \cup {k}]
    IN  CASE a.action = "help" ->
               [st |-> [st EXCEPT !.error = "SystemExit"], used |-> 1]
          [] a.action = "store_false" ->
               [st |-> [seen EXCEPT !.ns = Put(@, a.dest, a.const)], used |-> 1]
          [] a.nargs = "?" /\ n = 0 ->
               [st |-> [seen EXCEPT !.ns = Put(@, a.dest, a.const)], used |-> 1]
          [] a.nargs \in {"?", "None"} /\ n > 0 ->
               LET got == ConvertOne(a, args[i + 1])
               IN  IF got.ok
                   THEN [st |-> [seen EXCEPT !.ns = Put(@, a.dest, got.val)], used |-> 2]
                   ELSE [st |-> [st EXCEPT !.error = "SystemExit"], used |-> 2]
          [] a.nargs = "+" /\ n > 0 ->
               LET got == ConvertAll(a, SubSeq(args, i + 1, i + n))
               IN  IF got.ok
                   THEN [st |-> [seen EXCEPT !.ns = Put(@, a.dest, ListRef(Len(st.heap) + 1)),
                                             !.heap = Append(@, got.vals)],
                         used |-> 1 + n]
                   ELSE [st |-> [st EXCEPT !.error = "SystemExit"], used |-> 1 + n]
          [] OTHER ->
               \* expected one argument / expected at least one argument
               [st |-> [st EXCEPT !.error = "SystemExit"], used |-> 1]

RECURSIVE Match(_, _, _, _)
\* the matching loop from args[i] on
Match(actions, args, i, st) ==
    IF st.error # "" \/ i > Len(args) THEN st
    ELSE LET k == IF StartsWithDash(args[i]) THEN LookupOption(actions, args[i]) ELSE 0
         IN  IF k = 0
             THEN Match(actions, args, i + 1, [st EXCEPT !.extras = Append(@, args[i])])
             ELSE LET took == TakeOptional(actions, args, i, k, CountArgs(args, i + 1), st)
                  IN  Match(actions, args, i + took.used, took.st)

\* parse_known_args(args): [ns, seen, extras, heap, error]
parse_known_args(actions, args, h) ==
    LET st0 == [ns |-> SetDefaults(actions, 1, NoFn), seen |-> {}, extras |-> <<>>,
                heap |-> h, error |-> ""]
        st == Match(actions, args, 1, st0)
    IN  IF st.error = "" /\ \E k \in DOMAIN actions : actions[k].required /\ k \notin st.seen
        THEN \* the following arguments are required
             [st EXCEPT !.error = "SystemExit"]
        ELSE st

(***************************************************************************)
(* The files on disk.  A file is its lines, each a sequence of             *)
(* whitespace-separated tokens; a path outside the domain does not exist.  *)
(***************************************************************************)
Files ==
    "a.cfg" :> << <<"--processes", "1">>, <<"--no_cuda">> >> @@
    "b.cfg" :> << <<"--processes", "2">> >> @@
    "base.args" :> << <<"--processes", "3">> >> @@
    "train.args" :> << <<"--processes", "5">> >>

\* Path.exists()
exists(path) == path \in DOMAIN Files

\* Path.read_text().split()
read_text_split(path) == Flatten(Files[path])

\* Path(sys.argv[0]).with_suffix(".args")
with_suffix_args(script) ==
    CASE script = "train.py" -> "train.args"
      [] script = "eval.py" -> "eval.args"

\* sys.argv[1:]
argv_tail(sys_argv) == IF sys_argv = <<>> THEN <<>> ELSE Tail(sys_argv)

(***************************************************************************)
(* parse_args_into_dataclasses, lines 350-380: the config file merger.     *)
(* In a call record "" stands for None (both are falsy).                   *)
(***************************************************************************)
RECURSIVE ExtractFlag(_, _, _, _)
\* args_file_parser.parse_known_args(args): a parser holding the single argument
\* add_argument(args_file_flag, type=str, action="append").  [error, paths, rest]
ExtractFlag(flag, args, i, acc) ==
    IF i > Len(args) THEN acc
    ELSE IF args[i] = flag
    THEN IF i + 1 <= Len(args) /\ ~StartsWithDash(args[i + 1])
         THEN ExtractFlag(flag, args, i + 2, [acc EXCEPT !.paths = Append(@, args[i + 1])])
         ELSE \* expected one argument
              [acc EXCEPT !.error = "SystemExit"]
    ELSE ExtractFlag(flag, args, i + 1, [acc EXCEPT !.rest = Append(@, args[i])])

\* the args the caller passed, None standing for sys.argv[1:]
GivenArgs(c) == IF c.args_is_none THEN argv_tail(c.sys_argv) ELSE c.args

\* DefaultArgsFiles with `elif` read as `if`: the sibling is added beside the explicit file
DefaultArgsFiles_Both(c) ==
    (IF c.args_filename # "" THEN <<c.args_filename>> ELSE <<>>)
    \o (IF c.look_for_args_file /\ Len(c.sys_argv) > 0
        THEN <<with_suffix_args(c.sys_argv[1])>> ELSE <<>>)

\* lines 353-356: the explicit file, else the sibling of the script
DefaultArgsFiles(c) ==
    IF c.args_filename # "" THEN <<c.args_filename>>
    ELSE IF c.look_for_args_file /\ Len(c.sys_argv) > 0
    THEN <<with_suffix_args(c.sys_argv[1])>>
    ELSE <<>>

RECURSIVE LoadFiles_StopAtMissing(_)
\* LoadFiles giving up at the first file that does not exist
LoadFiles_StopAtMissing(args_files) ==
    IF args_files = <<>> \/ ~exists(Head(args_files)) THEN <<>>
    ELSE read_text_split(Head(args_files)) \o LoadFiles_StopAtMissing(Tail(args_files))

RECURSIVE LoadFiles(_)
\* lines 371-376: the tokens of the files that exist, in order
LoadFiles(args_files) ==
    IF args_files = <<>> THEN <<>>
    ELSE (IF exists(Head(args_files)) THEN read_text_split(Head(args_files)) ELSE <<>>)
         \o LoadFiles(Tail(args_files))

\* MergeArgs with line 380 turned round: the command line before the files' tokens
MergeArgs_CmdFirst(c) ==
    IF c.args_file_flag # "" \/ c.args_filename # "" \/ (c.look_for_args_file /\ Len(c.sys_argv) > 0)
    THEN LET cfg == IF c.args_file_flag # ""
                    THEN ExtractFlag(c.args_file_flag, GivenArgs(c), 1,
                                     [error |-> "", paths |-> <<>>, rest |-> <<>>])
                    ELSE [error |-> "", paths |-> <<>>, rest |-> GivenArgs(c)]
             args_files == DefaultArgsFiles(c) \o cfg.paths
         IN  IF cfg.error # ""
             THEN [error |-> cfg.error, args_files |-> <<>>, warnings |-> <<>>, args |-> <<>>]
             ELSE [error |-> "",
                   args_files |-> args_files,
                   warnings |-> SelectSeq(args_files, LAMBDA f : ~exists(f)),
                   args |-> cfg.rest \o LoadFiles(args_files)]
    ELSE [error |-> "", args_files |-> <<>>, warnings |-> <<>>, args |-> GivenArgs(c)]

\* lines 350-380: [error, args_files, warnings, args]; args is what parse_known_args gets
MergeArgs(c) ==
    IF c.args_file_flag # "" \/ c.args_filename # "" \/ (c.look_for_args_file /\ Len(c.sys_argv) > 0)
    THEN LET cfg == IF c.args_file_flag # ""
                    THEN ExtractFlag(c.args_file_flag, GivenArgs(c), 1,
                                     [error |-> "", paths |-> <<>>, rest |-> <<>>])
                    ELSE [error |-> "", paths |-> <<>>, rest |-> GivenArgs(c)]
             args_files == DefaultArgsFiles(c) \o cfg.paths
         IN  IF cfg.error # ""
             THEN [error |-> cfg.error, args_files |-> <<>>, warnings |-> <<>>, args |-> <<>>]
             ELSE [error |-> "",
                   args_files |-> args_files,
                   warnings |-> SelectSeq(args_files, LAMBDA f : ~exists(f)),
                   args |-> LoadFiles(args_files) \o cfg.rest]
    ELSE [error |-> "", args_files |-> <<>>, warnings |-> <<>>, args |-> GivenArgs(c)]

(***************************************************************************)
(* parse_args_into_dataclasses, lines 381-399: the result assembler.       *)
(* The returned tuple is a sequence of elements [kind, cls, vals, strings]:*)
(* a dataclass instance, the leftover namespace, or the remaining strings. *)
(***************************************************************************)
\* {f.name for f in dataclasses.fields(dtype) if f.init}
InitKeys(dtype) == {dtype.fields[i].name : i \in {j \in DOMAIN dtype.fields : dtype.fields[j].init}}

Instance(dtype, ns) ==
    [kind |-> "instance", cls |-> dtype.name,
     vals |-> [k \in InitKeys(dtype) \cap DOMAIN ns |-> ns[k]], strings |-> <<>>]

RECURSIVE Assemble_KeepKeys(_, _, _)
\* Assemble without the delattr of line 388: the namespace keeps the instances' keys
Assemble_KeepKeys(dtypes, ns, acc) ==
    IF dtypes = <<>> THEN [error |-> "", outputs |-> acc, ns |-> ns]
    ELSE LET dtype == Head(dtypes)
         IN  IF ~(InitKeys(dtype) \subseteq DOMAIN ns)
             THEN [error |-> "AttributeError", outputs |-> acc, ns |-> ns]
             ELSE Assemble_KeepKeys(Tail(dtypes), ns, Append(acc, Instance(dtype, ns)))

RECURSIVE Assemble(_, _, _)
\* lines 383-389: one instance per dataclass; its keys leave the namespace.
\* delattr of a key the namespace does not hold raises AttributeError
Assemble(dtypes, ns, acc) ==
    IF dtypes = <<>> THEN [error |-> "", outputs |-> acc, ns |-> ns]
    ELSE LET dtype == Head(dtypes)
         IN  IF ~(InitKeys(dtype) \subseteq DOMAIN ns)
             THEN [error |-> "AttributeError", outputs |-> acc, ns |-> ns]
             ELSE Assemble(Tail(dtypes), Without(ns, InitKeys(dtype)),
                           Append(acc, Instance(dtype, ns)))

NoOutcome ==
    [status |-> "none", result |-> <<>>, args |-> <<>>, args_files |-> <<>>,
     warnings |-> <<>>]

\* the outcome of a call that raised
Raised(status, m) ==
    [NoOutcome EXCEPT !.status = status, !.args = m.args, !.args_files = m.args_files,
                      !.warnings = m.warnings]

\* lines 390-399: the returned tuple
Returned(c, asm, extras) ==
    asm.outputs
    \o (IF DOMAIN asm.ns # {}
        THEN <<[kind |-> "namespace", cls |-> "", vals |-> asm.ns, strings |-> <<>>]>>
        ELSE <<>>)
    \o (IF c.return_remaining_strings
        THEN <<[kind |-> "remaining", cls |-> "", vals |-> NoFn, strings |-> extras]>>
        ELSE <<>>)

\* Finish without the test of line 396: remaining strings are dropped silently
Finish_Lenient(c, h, m, st, asm) ==
    IF asm.error # "" THEN [outcome |-> Raised(asm.error, m), heap |-> h]
    ELSE [outcome |-> [status |-> "ok", result |-> Returned(c, asm, st.extras),
                       args |-> m.args, args_files |-> m.args_files,
                       warnings |-> m.warnings],
          heap |-> st.heap]

\* lines 390-399, given the merged arguments m, the matching state st and the
\* assembled instances asm: [outcome, heap]
Finish(c, h, m, st, asm) ==
    IF asm.error # "" THEN [outcome |-> Raised(asm.error, m), heap |-> h]
    ELSE IF ~c.return_remaining_strings /\ st.extras # <<>>
    THEN [outcome |-> Raised("ValueError", m), heap |-> h]
    ELSE [outcome |-> [status |-> "ok", result |-> Returned(c, asm, st.extras),
                       args |-> m.args, args_files |-> m.args_files,
                       warnings |-> m.warnings],
          heap |-> st.heap]

\* lines 381-389, given the merged arguments m and the matching state st
AfterMatch(dtypes, c, h, m, st) ==
    IF st.error # "" THEN [outcome |-> Raised(st.error, m), heap |-> h]
    ELSE Finish(c, h, m, st, Assemble(dtypes, st.ns, <<>>))

\* line 381, given the merged arguments m
AfterMerge(dtypes, actions, c, h, m) ==
    IF m.error # "" THEN [outcome |-> Raised(m.error, m), heap |-> h]
    ELSE AfterMatch(dtypes, c, h, m, parse_known_args(actions, m.args, h))

\* parse_args_into_dataclasses(c) on a parser with these actions, on heap h:
\* [outcome, heap]
parse_args_into_dataclasses(dtypes, actions, c, h) ==
    AfterMerge(dtypes, actions, c, h, MergeArgs(c))

(***************************************************************************)
(* The dataclasses of the model (after example.py and test.py).            *)
(***************************************************************************)
\* processes: int = dArg(default=4); cuda: bool = dArg(default=True)
ArgsDecl ==
    [name |-> "Args",
     decls |-> <<Decl("processes", Plain("int"), PyInt("4")),
                 Decl("cuda", Plain("bool"), PyTrue)>>]

\* verbose: bool = dArg(default=False); qq: Choice[42, "wer"] = dArg(default=42)
LoggingArgsDecl ==
    [name |-> "LoggingArgs",
     decls |-> <<Decl("verbose", Plain("bool"), PyFalse),
                 Decl("qq", TLiteral(<<PyInt("42"), PyStr("wer")>>), PyInt("42"))>>]

\* bois: list[int] = dArg(default_factory=list); hackyl: list[int] = dArg(default=[2, 3])
ListArgsDecl ==
    [name |-> "ListArgs",
     decls |-> <<[Decl("bois", TList("int"), MISSING) EXCEPT !.default_factory = ListFactory],
                 [Decl("hackyl", TList("int"), ListRef(0))
                     EXCEPT !.items = <<PyInt("2"), PyInt("3")>>]>>]

\* u: <a Union> = dArg(default=...)
UnionArgsDecl(ty, default) ==
    [name |-> "UnionArgs", decls |-> <<Decl("u", ty, default)>>]

\* a second dataclass with one int field of the given name
OtherArgsDecl(name) ==
    [name |-> "OtherArgs", decls |-> <<Decl(name, Plain("int"), PyInt("1"))>>]

\* learning_rate: <type> = dArg(aliases=...), with or without a default
TrainArgsDecl(ty, default, aliases) ==
    [name |-> "TrainArgs",
     decls |-> <<[Decl("learning_rate", ty, default) EXCEPT !.aliases = aliases]>>]

\* the annotations of a field: plain, list, Choice, and Optional[bool] in both spellings
FieldTypes ==
    {Plain("int"), Plain("float"), Plain("str"), Plain("bool"), TList("int"),
     TLiteral(<<PyInt("42"), PyStr("wer")>>),
     TUnion(<<"bool", "NoneType">>), TUnionType(<<"bool", "NoneType">>)}

\* the arms a Union of the model is built from
ArmNames == {"int", "str", "bool", "NoneType"}
\* most arms of a Union
MaxArms == 3

SeqsUpTo(S, n) == UNION {[1..k -> S] : k \in 0..n}

\* every Union[...] and every `a | b | ...` of two to MaxArms distinct arms
UnionShapes ==
    LET arms == {s \in SeqsUpTo(ArmNames, MaxArms) :
                    Len(s) >= 2 /\ \A i, j \in DOMAIN s : i # j => s[i] # s[j]}
    IN  {TUnion(s) : s \in arms} \cup {TUnionType(s) : s \in arms}

RECURSIVE DeclareFields(_, _)
\* the class body of one dataclass runs: every dArg(...) call, in order
DeclareFields(decls, h) ==
    IF decls = <<>> THEN [fields |-> <<>>, heap |-> h]
    ELSE LET one == dArg(Head(decls), h)
             rest == DeclareFields(Tail(decls), one.heap)
         IN  [fields |-> <<one.field>> \o rest.fields, heap |-> rest.heap]

RECURSIVE Declare(_, _)
\* the module's dataclass definitions run, in order: [dtypes, heap]
Declare(dcs, h) ==
    IF dcs = <<>> THEN [dtypes |-> <<>>, heap |-> h]
    ELSE LET one == DeclareFields(Head(dcs).decls, h)
             rest == Declare(Tail(dcs), one.heap)
         IN  [dtypes |-> <<[name |-> Head(dcs).name, fields |-> one.fields]>> \o rest.dtypes,
              heap |-> rest.heap]

(***************************************************************************)
(* The invocations of the model: which dataclasses, which command line,    *)
(* which keyword arguments.                                                *)
(***************************************************************************)
Call(script, cmdline, args_is_none, remaining, look, filename, flag) ==
    [sys_argv |-> IF args_is_none THEN <<script>> \o cmdline ELSE <<script>>,
     args |-> IF args_is_none THEN <<>> ELSE cmdline,
     args_is_none |-> args_is_none,
     return_remaining_strings |-> remaining,
     look_for_args_file |-> look,
     args_filename |-> filename,
     args_file_flag |-> flag]

\* config files: the items a command line of up to MaxItems items is made of
MergeItems ==
    {<<"--cfg", "a.cfg">>, <<"--cfg", "b.cfg">>, <<"--cfg", "gone.cfg">>,
     <<"--processes", "8">>, <<"--cuda">>, <<"--cfg">>}

\* matching: the dataclasses, and the vocabulary of their command lines of up to MaxArgs tokens
MatchCases ==
    {[decls |-> <<ArgsDecl>>,
      tokens |-> {"--processes", "8", "--cuda", "--no_cuda", "No", "--bogus"}],
     [decls |-> <<LoggingArgsDecl>>,
      tokens |-> {"--verbose", "--no_verbose", "no", "--qq", "42", "wer", "zzz"}],
     [decls |-> <<ListArgsDecl>>,
      tokens |-> {"--bois", "--hackyl", "1", "x"}],
     [decls |-> <<ArgsDecl, LoggingArgsDecl>>,
      tokens |-> {"--processes", "8", "--verbose", "--extra", "--bogus"}]}

(***************************************************************************)
(* The state machine.                                                      *)
(***************************************************************************)
NoParser == [status |-> "none", error_field |-> "", actions |-> <<>>]

\* the list objects a returned tuple holds
ReturnedLists(o) ==
    UNION {{o.result[i].vals[k].id : k \in DOMAIN o.result[i].vals} : i \in DOMAIN o.result}
    \ {0}

\* the process starts: the dataclass definitions decls have run, the invocation is c
Start(decls, c) ==
    /\ pc = "declared"
    /\ dataclass_types = Declare(decls, <<>>).dtypes
    /\ heap = Declare(decls, <<>>).heap
    /\ call = c
    /\ parser = NoParser
    /\ outcome = NoOutcome
    /\ handed_out = {}
    /\ n_parses = 0
    /\ n_mutations = 0

\* config files: every keyword argument varied, the command line given or in sys.argv
InitMerge ==
    \E script \in {"train.py", "eval.py"}, items \in SeqsUpTo(MergeItems, MaxItems),
       none \in BOOLEAN, look \in BOOLEAN,
       filename \in {"", "base.args", "gone.args"}, flag \in {"", "--cfg"} :
        Start(<<ArgsDecl>>, Call(script, Flatten(items), none, FALSE, look, filename, flag))

\* matching: no config file, remaining strings permitted or not
InitMatch ==
    \E case \in MatchCases :
        \E cmdline \in SeqsUpTo(case.tokens, MaxArgs), remaining \in BOOLEAN :
            Start(case.decls, Call("train.py", cmdline, FALSE, remaining, FALSE, "", ""))

\* Union-typed fields: every shape, with no default or a default of None, True or False
InitUnion ==
    \E ty \in UnionShapes, default \in {MISSING, PyNone, PyTrue, PyFalse},
       cmdline \in SeqsUpTo({"--u", "--no_u", "1"}, MaxArgs) :
        Start(<<UnionArgsDecl(ty, default)>>,
              Call("train.py", cmdline, FALSE, FALSE, FALSE, "", ""))

\* two dataclasses on one parser, their field names distinct or not
InitCollide ==
    \E first, second \in {ArgsDecl, LoggingArgsDecl, OtherArgsDecl("processes"),
                          OtherArgsDecl("cuda"), OtherArgsDecl("verbose")},
       cmdline \in SeqsUpTo({"--processes", "8"}, MaxItems) :
        Start(<<first, second>>, Call("train.py", cmdline, FALSE, FALSE, FALSE, "", ""))

\* one field of each type, with an alias or not, with no default or a default of None
InitRequired ==
    \E ty \in FieldTypes, default \in {MISSING, PyNone}, aliases \in {<<>>, <<"--lr">>},
       cmdline \in SeqsUpTo({"--learning_rate", "--lr", "1", "42", "no"}, MaxArgs) :
        Start(<<TrainArgsDecl(ty, default, aliases)>>,
              Call("train.py", cmdline, FALSE, FALSE, FALSE, "", ""))

Init == InitMerge \/ InitMatch \/ InitUnion \/ InitCollide \/ InitRequired

\* parser = dArgParser(dataclass_types)
Construct ==
    /\ pc = "declared"
    /\ LET p == dArgParser(dataclass_types, heap)
       IN  /\ parser' = [status |-> p.status, error_field |-> p.error_field,
                         actions |-> p.actions]
           /\ heap' = p.heap
           /\ pc' = IF p.status = "ok" THEN "constructed" ELSE "config_error"
    /\ UNCHANGED <<dataclass_types, call, outcome, handed_out, n_parses, n_mutations>>

\* parser.add_argument("--extra"): an argument registered directly on the parser
AddArgument ==
    /\ pc = "constructed"
    /\ n_parses = 0
    /\ "--extra" \notin OptionStrings(parser.actions)
    /\ parser' = add_argument(parser, StoreAction(<<"--extra">>, "extra"))
    /\ UNCHANGED <<pc, dataclass_types, call, heap, outcome, handed_out, n_parses, n_mutations>>

\* parser.parse_args_into_dataclasses(**call)
Parse ==
    /\ pc \in {"constructed", "parsed"}
    /\ n_parses < MaxParses
    /\ LET r == parse_args_into_dataclasses(dataclass_types, parser.actions, call, heap)
       IN  /\ outcome' = r.outcome
           /\ heap' = r.heap
    /\ handed_out' = handed_out \cup ReturnedLists(outcome)
    /\ n_parses' = n_parses + 1
    /\ pc' = "parsed"
    /\ UNCHANGED <<dataclass_types, call, parser, n_mutations>>

\* the caller appends to a list of the returned record: args.some_list.append(9)
Mutate ==
    /\ pc = "parsed"
    /\ outcome.status = "ok"
    /\ n_mutations < MaxMutations
    /\ \E id \in ReturnedLists(outcome) :
          heap' = [heap EXCEPT ![id] = Append(@, PyInt("9"))]
    /\ n_mutations' = n_mutations + 1
    /\ UNCHANGED <<pc, dataclass_types, call, parser, outcome, handed_out, n_parses>>

Next == Construct \/ AddArgument \/ Parse \/ Mutate

Spec == Init /\ [][Next]_vars

(***************************************************************************)
(* What the properties below speak about.                                  *)
(***************************************************************************)
Parsed == pc = "parsed"
ParsedOk == pc = "parsed" /\ outcome.status = "ok"

\* the command line of the invocation, and the stream that went to matching
CmdLine == GivenArgs(call)
Stream == outcome.args

\* the elements of seq at the positions S, in order
SubSeqAt(seq, S) ==
    [k \in 1..Cardinality(S) |-> seq[CHOOSE i \in S : Cardinality({j \in S : j <= i}) = k]]

Positions(seq, toks) == {i \in DOMAIN seq : seq[i] \in toks}
LastOf(S) == CHOOSE i \in S : \A j \in S : j <= i

\* every field of every registered dataclass
AllFields == Flatten([i \in DOMAIN dataclass_types |-> dataclass_types[i].fields])

\* the value the returned instances hold for field `name`
ValueOf(name) ==
    LET i == CHOOSE j \in DOMAIN outcome.result :
                 outcome.result[j].kind = "instance" /\ name \in DOMAIN outcome.result[j].vals
    IN  outcome.result[i].vals[name]

\* the option strings registered for destination `dest`
OptionsFor(dest) ==
    UNION {Range(parser.actions[i].option_strings) :
              i \in {j \in DOMAIN parser.actions : parser.actions[j].dest = dest}}

\* the config flag is enabled and every occurrence on the command line has a path
FlagEnabled == call.args_file_flag # ""
FlagPositions == Positions(CmdLine, {call.args_file_flag})
FlagWellFormed ==
    \A i \in FlagPositions : i < Len(CmdLine) /\ ~StartsWithDash(CmdLine[i + 1])

\* the command line without the config flag occurrences (flag and path)
StrippedCmdLine ==
    SubSeqAt(CmdLine, {i \in DOMAIN CmdLine :
                          i \notin FlagPositions /\ (i - 1) \notin FlagPositions})

\* the tokens of the files that were loaded, in load order
LoadedTokens ==
    Flatten([i \in DOMAIN outcome.args_files |->
                IF outcome.args_files[i] \in DOMAIN Files
                THEN Flatten(Files[outcome.args_files[i]]) ELSE <<>>])

(***************************************************************************)
(* C1.  With the config flag enabled, the stream handed to matching is the *)
(* loaded files' tokens followed by the command line with every config     *)
(* flag occurrence (flag and path) removed, the rest in its order; and a   *)
(* destination set both in a file and on the command line ends with the   *)
(* value the command line alone gives it.                                  *)
(***************************************************************************)
C1_CommandLineLast ==
    (Parsed /\ FlagEnabled /\ FlagWellFormed) =>
        /\ Stream = LoadedTokens \o StrippedCmdLine
        /\ ParsedOk =>
             \A i \in DOMAIN AllFields :
                LET dest == AllFields[i].name
                IN  (/\ Range(LoadedTokens) \cap OptionsFor(dest) # {}
                     /\ Range(StrippedCmdLine) \cap OptionsFor(dest) # {})
                    => ValueOf(dest) = parse_known_args(parser.actions, StrippedCmdLine, heap).ns[dest]

\* `--processes 8 --cfg a.cfg`: a.cfg sets processes to 1, the command line wins
C1_Witness ==
    /\ ParsedOk
    /\ FlagEnabled
    /\ CmdLine = <<"--processes", "8", "--cfg", "a.cfg">>
    /\ "--processes" \in Range(LoadedTokens)
    /\ ValueOf("processes") = PyInt("8")

(***************************************************************************)
(* C2.  Files load in a fixed order: the explicit file if given, otherwise *)
(* the sibling of the script when that mode is on (never both), then one   *)
(* file per config flag occurrence, left to right; their tokens stand in   *)
(* that order before the command line's, so the last loaded file that sets *)
(* a destination decides it when the command line does not.                *)
(***************************************************************************)
\* the paths the config flag occurrences name, left to right
FlagPaths ==
    IF FlagEnabled THEN SubSeqAt(CmdLine, {i \in DOMAIN CmdLine : (i - 1) \in FlagPositions})
    ELSE <<>>

\* the value of --processes a file's tokens end with
ProcessesIn(path) ==
    LET toks == Flatten(Files[path])
    IN  PyInt(toks[LastOf(Positions(toks, {"--processes"})) + 1])

C2_LoadOrder ==
    (Parsed /\ (FlagEnabled => FlagWellFormed)) =>
        LET first == IF call.args_filename # "" THEN <<call.args_filename>>
                     ELSE IF call.look_for_args_file THEN <<with_suffix_args(call.sys_argv[1])>>
                     ELSE <<>>
            found == Positions(outcome.args_files, DOMAIN Files)
        IN  /\ outcome.args_files = first \o FlagPaths
            /\ Len(first) <= 1
            /\ \E rest \in {SubSeq(Stream, Len(LoadedTokens) + 1, Len(Stream))} :
                  Stream = LoadedTokens \o rest /\ rest = (IF FlagEnabled THEN StrippedCmdLine ELSE CmdLine)
            /\ (ParsedOk /\ found # {} /\ "--processes" \notin Range(CmdLine))
                  => ValueOf("processes") = ProcessesIn(outcome.args_files[LastOf(found)])

\* base.args, then `--cfg a.cfg --cfg b.cfg`: b.cfg is loaded last and decides
C2_Witness ==
    /\ ParsedOk
    /\ outcome.args_files = <<"base.args", "a.cfg", "b.cfg">>
    /\ call.look_for_args_file
    /\ ValueOf("processes") = PyInt("2")

(***************************************************************************)
(* C3.  A referenced file that does not exist costs a warning and nothing  *)
(* else: it gives no tokens, the other files load, and the parse ends as   *)
(* the invocation without that reference ends.                             *)
(***************************************************************************)
Missing(path) == path \notin DOMAIN Files

\* the invocation c with cmd as its command line
WithCmdLine(c, cmd) ==
    IF c.args_is_none THEN [c EXCEPT !.sys_argv = <<c.sys_argv[1]>> \o cmd]
    ELSE [c EXCEPT !.args = cmd]

\* the outcome of this parser on the invocation c
Run(c) == parse_args_into_dataclasses(dataclass_types, parser.actions, c, heap).outcome

SameResultAs(r) == outcome.status = r.status /\ outcome.result = r.result

\* the config flag occurrences whose file is missing
MissingFlagPositions ==
    IF FlagEnabled /\ FlagWellFormed
    THEN {i \in FlagPositions : Missing(CmdLine[i + 1])} ELSE {}

\* the invocation without the config flag occurrence at position i
WithoutOccurrence(i) ==
    WithCmdLine(call, SubSeqAt(CmdLine, DOMAIN CmdLine \ {i, i + 1}))

MissingSibling ==
    /\ call.args_filename = ""
    /\ call.look_for_args_file
    /\ Missing(with_suffix_args(call.sys_argv[1]))

MissingExplicit == call.args_filename # "" /\ Missing(call.args_filename)

\* what holds for a missing sibling file and a missing config flag file
MissingInferredOrFlagged ==
    /\ MissingSibling => SameResultAs(Run([call EXCEPT !.look_for_args_file = FALSE]))
    /\ \A i \in MissingFlagPositions : SameResultAs(Run(WithoutOccurrence(i)))
    /\ (FlagEnabled => FlagWellFormed)
          => outcome.warnings = SelectSeq(outcome.args_files, Missing)

\* C3 as stated: dropping the missing explicit path alone gives the same result
C3_MissingFileIsNoOp ==
    Parsed =>
        /\ MissingInferredOrFlagged
        /\ MissingExplicit => SameResultAs(Run([call EXCEPT !.args_filename = ""]))

\* C3 narrowed: a missing explicit path still stands in for the sibling file, so
\* the result is that of the invocation with neither the path nor the sibling
C3_MissingFileOnlyWarns ==
    Parsed =>
        /\ MissingInferredOrFlagged
        /\ MissingExplicit =>
              SameResultAs(Run([call EXCEPT !.args_filename = "",
                                            !.look_for_args_file = FALSE]))

\* gone.args is missing, a.cfg still loads and decides
C3_Witness ==
    /\ ParsedOk
    /\ call.args_filename = "gone.args"
    /\ call.look_for_args_file
    /\ outcome.args_files = <<"gone.args", "a.cfg">>
    /\ outcome.warnings = <<"gone.args">>
    /\ ValueOf("processes") = PyInt("1")

(***************************************************************************)
(* Boolean fields (C4, C5).                                                *)
(***************************************************************************)
\* declared bool, or Optional[bool] in either spelling
IsBooleanField(f) ==
    \/ f.type.origin = "bool"
    \/ /\ f.type.origin \in {"Union", "UnionType"}
       /\ Len(f.type.args) = 2
       /\ Range(f.type.args) = {"bool", "NoneType"}

Registered == pc \in {"constructed", "parsed"}

\* the positions in the parser's action table where the option string opt is registered
ActionsWith(opt) ==
    {j \in DOMAIN parser.actions : opt \in Range(parser.actions[j].option_strings)}

\* the token at position i of the stream is a flag with no value after it
Bare(i) == i = Len(Stream) \/ StartsWithDash(Stream[i + 1])

(***************************************************************************)
(* C4.  A boolean field whose default is true has a negated flag           *)
(* `--no_<name>` with the same destination, registered strictly after the  *)
(* primary flag; with neither flag in the stream the value is true, and    *)
(* when both occur the last one decides: `--flag --no_flag` gives false,   *)
(* `--no_flag --flag` gives true.                                          *)
(***************************************************************************)
C4_NegatedFlagLastWins ==
    \A n \in DOMAIN AllFields :
        (Registered /\ IsBooleanField(AllFields[n]) /\ AllFields[n].default = PyTrue) =>
            LET name == AllFields[n].name
                both == Positions(Stream, {field_name(name), no_field_name(name)})
            IN  /\ \E j \in ActionsWith(field_name(name)), k \in ActionsWith(no_field_name(name)) :
                      /\ j < k
                      /\ parser.actions[j].dest = name
                      /\ parser.actions[k].dest = name
                /\ ParsedOk =>
                      /\ both = {} => ValueOf(name) = PyTrue
                      /\ (both # {} /\ Stream[LastOf(both)] = no_field_name(name))
                            => ValueOf(name) = PyFalse
                      /\ (both # {} /\ Stream[LastOf(both)] = field_name(name) /\ Bare(LastOf(both)))
                            => ValueOf(name) = PyTrue

\* `--cuda --no_cuda` ends false
C4_Witness ==
    /\ ParsedOk
    /\ Stream = <<"--cuda", "--no_cuda">>
    /\ ValueOf("cuda") = PyFalse
    /\ ActionsWith("--no_cuda") # {}

(***************************************************************************)
(* C5.  A boolean field whose default is false: without the flag the value *)
(* is false, the bare flag gives true, the flag followed by a falsy token  *)
(* such as `no` gives false, and no negated flag is registered.            *)
(***************************************************************************)
C5_FalseDefaultFlag ==
    \A n \in DOMAIN AllFields :
        (Registered /\ IsBooleanField(AllFields[n]) /\ AllFields[n].default = PyFalse) =>
            LET name == AllFields[n].name
                occ == Positions(Stream, {field_name(name)})
            IN  /\ ActionsWith(no_field_name(name)) = {}
                /\ ParsedOk =>
                      /\ occ = {} => ValueOf(name) = PyFalse
                      /\ (occ # {} /\ Bare(LastOf(occ))) => ValueOf(name) = PyTrue
                      /\ (occ # {} /\ ~Bare(LastOf(occ))
                              /\ Lower(Stream[LastOf(occ) + 1]) \in {"no", "false", "f", "n", "0"})
                            => ValueOf(name) = PyFalse

\* `--verbose no` ends false
C5_Witness ==
    /\ ParsedOk
    /\ Stream = <<"--verbose", "no">>
    /\ ValueOf("verbose") = PyFalse

(***************************************************************************)
(* C6.  A field whose type is a Union other than two arms of which one is  *)
(* None makes the construction of the parser raise a configuration error   *)
(* that names the field; such a schema never reaches a parse.              *)
(***************************************************************************)
\* a Union that is not `Optional[X]`: three or more arms, or two arms without None
UnsupportedUnion(ty) ==
    /\ ty.origin \in {"Union", "UnionType"}
    /\ ~(Len(ty.args) = 2 /\ "NoneType" \in Range(ty.args))

\* construction stopped with a configuration error naming the field
RaisedFor(name) ==
    pc # "declared" =>
        /\ pc = "config_error"
        /\ parser.status = "ValueError"
        /\ parser.error_field = name
        /\ n_parses = 0

ValuedPositions(name) ==
    {i \in Positions(Stream, {field_name(name)}) : i < Len(Stream) /\ ~StartsWithDash(Stream[i + 1])}

MembersNamed(members, t) == {i \in DOMAIN members : Str(members[i]) = t}

C7_EnumCoercion ==
    \A n \in DOMAIN AllFields :
        (Parsed /\ AllFields[n].type.origin = "Literal") =>
            LET members == AllFields[n].type.choices
                name == AllFields[n].name
            IN  /\ \A t \in Range(Stream) :
                      IF MembersNamed(members, t) = {}
                      THEN make_choice_type_function(members, t) = PyStr(t)
                      ELSE \E i \in MembersNamed(members, t) :
                              make_choice_type_function(members, t) = members[i]
                /\ (\E i \in ValuedPositions(name) : MembersNamed(members, Stream[i + 1]) = {})
                      => outcome.status = "SystemExit" /\ outcome.result = <<>>
                /\ (ParsedOk /\ ValuedPositions(name) # {})
                      => \E i \in MembersNamed(members, Stream[LastOf(ValuedPositions(name)) + 1]) :
                            ValueOf(name) = members[i]

\* `--qq 42` gives the int 42 of Literal[42, "wer"], not the string
C7_Witness ==
    /\ ParsedOk
    /\ Stream = <<"--qq", "42">>
    /\ ValueOf("qq") = PyInt("42")
    /\ ValueOf("qq") # PyStr("42")

(***************************************************************************)
(* C8.  Tokens of the stream that match no registered flag are collected   *)
(* during matching, not rejected: when remaining strings are not permitted *)
(* and some token is unmatched the parse fails and returns no records;     *)
(* when they are permitted the unmatched tokens come back in order as the  *)
(* last element, after the records (`--bogus 8` gives ["--bogus", "8"]).   *)
(***************************************************************************)
\* the flag a value token at position i stands behind (0: none)
FlagBefore(i) ==
    LET before == {j \in 1..(i - 1) : StartsWithDash(Stream[j])}
    IN  IF before = {} THEN 0 ELSE LastOf(before)

\* the token at position i of the stream is matched by a registered flag
Matched(i) ==
    IF StartsWithDash(Stream[i]) THEN ActionsWith(Stream[i]) # {}
    ELSE /\ FlagBefore(i) # 0
         /\ ActionsWith(Stream[FlagBefore(i)]) # {}
         /\ LET nargs == parser.actions[CHOOSE j \in ActionsWith(Stream[FlagBefore(i)]) : TRUE].nargs
            IN  \/ nargs = "+"
                \/ nargs \in {"None", "?"} /\ i = FlagBefore(i) + 1

UnmatchedTokens == SubSeqAt(Stream, {i \in DOMAIN Stream : ~Matched(i)})

LastResult == outcome.result[Len(outcome.result)]

C8_UnmatchedTokens ==
    /\ (ParsedOk /\ call.return_remaining_strings) =>
          /\ LastResult.kind = "remaining"
          /\ LastResult.strings = UnmatchedTokens
          /\ \A i \in 1..(Len(outcome.result) - 1) : outcome.result[i].kind # "remaining"
    /\ (ParsedOk /\ ~call.return_remaining_strings) =>
          /\ UnmatchedTokens = <<>>
          /\ \A i \in DOMAIN outcome.result : outcome.result[i].kind # "remaining"
    /\ (Parsed /\ ~call.return_remaining_strings) =>
          LET permitted == Run([call EXCEPT !.return_remaining_strings = TRUE])
          IN  (permitted.status = "ok" /\ permitted.result[Len(permitted.result)].strings # <<>>)
                  => outcome.status = "ValueError" /\ outcome.result = <<>>

\* `--bogus 8` with remaining strings permitted
C8_Witness ==
    /\ ParsedOk
    /\ call.return_remaining_strings
    /\ Stream = <<"--bogus", "8">>
    /\ LastResult.strings = <<"--bogus", "8">>
    /\ Len(outcome.result) = 2

(***************************************************************************)
(* C9.  A successful parse returns one instance per registered dataclass,  *)
(* in registration order, each with exactly the keys of its own fields;    *)
(* the destinations that belong to no dataclass form one namespace placed  *)
(* after the instances, present only when there are such destinations, and *)
(* holding no field's key.                                                 *)
(***************************************************************************)
FieldNames(dtype) == {dtype.fields[i].name : i \in DOMAIN dtype.fields}

SchemaKeys == UNION {FieldNames(dataclass_types[i]) : i \in DOMAIN dataclass_types}

\* the destinations registered directly on the parser
OwnDests == ({parser.actions[j].dest : j \in DOMAIN parser.actions} \ SchemaKeys) \ {"help"}

C9_InstancesThenNamespace ==
    ParsedOk =>
        /\ Len(outcome.result) = Len(dataclass_types)
                                 + (IF OwnDests # {} THEN 1 ELSE 0)
                                 + (IF call.return_remaining_strings THEN 1 ELSE 0)
        /\ \A i \in DOMAIN dataclass_types :
              /\ outcome.result[i].kind = "instance"
              /\ outcome.result[i].cls = dataclass_types[i].name
              /\ DOMAIN outcome.result[i].vals = FieldNames(dataclass_types[i])
        /\ OwnDests # {} =>
              /\ outcome.result[Len(dataclass_types) + 1].kind = "namespace"
              /\ DOMAIN outcome.result[Len(dataclass_types) + 1].vals = OwnDests
              /\ DOMAIN outcome.result[Len(dataclass_types) + 1].vals \cap SchemaKeys = {}
        /\ OwnDests = {} =>
              \A i \in DOMAIN outcome.result : outcome.result[i].kind # "namespace"

\* two dataclasses and `--extra 8` registered on the parser itself
C9_Witness ==
    /\ ParsedOk
    /\ Len(dataclass_types) = 2
    /\ Stream = <<"--extra", "8">>
    /\ outcome.result[1].cls = "Args"
    /\ outcome.result[2].cls = "LoggingArgs"
    /\ outcome.result[3].kind = "namespace"
    /\ outcome.result[3].vals = [extra |-> PyStr("8")]

(***************************************************************************)
(* C10.  A list field with a default factory (a list literal given through *)
(* dArg included) and no tokens: every parse yields a freshly produced     *)
(* list equal to the factory's value, never a list an earlier parse has    *)
(* returned.                                                               *)
(***************************************************************************)
C10_FreshDefaultList ==
    \A n \in DOMAIN AllFields :
        (/\ ParsedOk
         /\ AllFields[n].type.origin = "list"
         /\ AllFields[n].default_factory # NoFactory
         /\ field_name(AllFields[n].name) \notin Range(Stream))
        => /\ ValueOf(AllFields[n].name).id \notin handed_out
           /\ n_mutations = 0 => heap[ValueOf(AllFields[n].name).id] = AllFields[n].items

(***************************************************************************)
(* C11.  Destination keys are unique on one parser: when two fields of the *)
(* registered dataclasses have the same name the construction fails with   *)
(* an error, so a constructed parser never holds two fields with one       *)
(* destination key.                                                        *)
(***************************************************************************)
\* the pairs of fields (of one dataclass or of two) that have one name
SameNamePairs ==
    {pair \in (DOMAIN AllFields) \X (DOMAIN AllFields) :
        pair[1] < pair[2] /\ AllFields[pair[1]].name = AllFields[pair[2]].name}

C11_UniqueDestinations ==
    /\ (pc # "declared" /\ SameNamePairs # {}) =>
          /\ pc = "config_error"
          /\ parser.status = "ArgumentError"
          /\ \E pair \in SameNamePairs : parser.error_field = AllFields[pair[1]].name
          /\ n_parses = 0
    /\ Registered =>
          /\ SameNamePairs = {}
          /\ \A n \in DOMAIN AllFields :
                Cardinality(ActionsWith(field_name(AllFields[n].name))) = 1

\* Args and a second dataclass that also has a field `processes`
C11_Witness ==
    /\ pc = "config_error"
    /\ parser.status = "ArgumentError"
    /\ parser.error_field = "processes"
    /\ dataclass_types[1].name = "Args"
    /\ dataclass_types[2].name = "OtherArgs"

(***************************************************************************)
(* C12.  A field declared with neither a default nor a default factory is  *)
(* required: a parse whose stream holds neither its flag nor an alias ends *)
(* in a usage error and returns no records; a field with a default is      *)
(* never reported missing.                                                 *)
(***************************************************************************)
Undefaulted(f) == f.default = MISSING /\ f.default_factory = NoFactory

\* the flag of the field and its aliases
FlagsOf(f) == {field_name(f.name)} \cup Range(f.aliases)

\* the field's argument in the parser's table
PrimaryAction(f) == parser.actions[CHOOSE j \in ActionsWith(field_name(f.name)) : TRUE]

\* the field is compiled as a boolean argument (lines 237-254)
CompiledAsBool(f) == PrimaryAction(f).type = "string_to_bool"

\* the parse failed as a usage error and returned nothing
UsageError == outcome.status = "SystemExit" /\ outcome.result = <<>>

NeverMissing(f) ==
    \A j \in DOMAIN parser.actions :
        parser.actions[j].dest = f.name => ~parser.actions[j].required

IsOptionalBoolean(f) ==
    /\ f.type.origin \in {"Union", "UnionType"}
    /\ Len(f.type.args) = 2
    /\ Range(f.type.args) = {"bool", "NoneType"}

\* the stream holds the field's flag and nothing else
OnlyBareFlag(f) == Stream # <<>> /\ Range(Stream) = {field_name(f.name)}

\* the stream is the field's flag and one token
FlagAndToken(f) == Len(Stream) = 2 /\ Stream[1] = field_name(f.name) /\ ~StartsWithDash(Stream[2])

\* zero or one token, the constant true
ZeroOrOneWithConst(f) ==
    /\ Registered =>
          /\ PrimaryAction(f).nargs = "?"
          /\ PrimaryAction(f).const = PyTrue
    /\ (ParsedOk /\ Stream = <<>>) =>
          ValueOf(f.name) = (IF f.default = MISSING THEN PyFalse ELSE f.default)
    /\ (Parsed /\ OnlyBareFlag(f)) => (ParsedOk /\ ValueOf(f.name) = PyTrue)
    /\ (Parsed /\ FlagAndToken(f) /\ string_to_bool(Stream[2]).ok) =>
          (ParsedOk /\ ValueOf(f.name) = string_to_bool(Stream[2]).val)

\* exactly one token: the flag alone is an error, None without the flag
ExactlyOneToken(f) ==
    /\ Registered =>
          /\ PrimaryAction(f).nargs = "None"
          /\ PrimaryAction(f).const = PyNone
    /\ (Parsed /\ Stream = <<>>) => (ParsedOk /\ ValueOf(f.name) = PyNone)
    /\ (Parsed /\ OnlyBareFlag(f)) => UsageError
    /\ (Parsed /\ FlagAndToken(f) /\ string_to_bool(Stream[2]).ok) =>
          (ParsedOk /\ ValueOf(f.name) = string_to_bool(Stream[2]).val)

\* C13 as stated: every optional boolean field
C13_OptionalBoolLikeBool ==
    \A n \in DOMAIN AllFields :
        IsOptionalBoolean(AllFields[n]) => ZeroOrOneWithConst(AllFields[n])

\* C13 narrowed: typing.Optional[bool] with no default or the default None takes
\* exactly one token; every other optional boolean field is as stated
C13_OptionalBoolArity ==
    \A n \in DOMAIN AllFields :
        IsOptionalBoolean(AllFields[n]) =>
            IF AllFields[n].type.origin = "Union" /\ AllFields[n].default \in {MISSING, PyNone}
            THEN ExactlyOneToken(AllFields[n])
            ELSE ZeroOrOneWithConst(AllFields[n])

\* `u: bool | None` without a default, the bare flag: true
C13_Witness ==
    /\ ParsedOk
    /\ dataclass_types[1].fields[1].type = TUnionType(<<"bool", "NoneType">>)
    /\ dataclass_types[1].fields[1].default = MISSING
    /\ Stream = <<"--u">>
    /\ ValueOf("u") = PyTrue

====
